---- MODULE Spec2Model ----
(***************************************************************************)
(* A model of oapi2proto (cmd/oapi2proto/main.go): the translation of the  *)
(* schemas under components.schemas into proto3 messages and enums.        *)
(*                                                                         *)
(* Go strings are sequences of one-character strings, so that the naming   *)
(* helpers (normalizeMessage, normalizeField, ...) are computed character  *)
(* by character as the code computes them.  Go nil pointers, nil maps and  *)
(* nil slices are Nil (the empty tuple) and a present value v is <<v>>.    *)
(* The field Description (a trailing comment) and the field Required       *)
(* (copied, never read) of Schema are left out.                            *)
(***************************************************************************)
EXTENDS Integers, Sequences, FiniteSets, TLC

\* ------------------------------------------------------------ characters

\* The characters the model uses, in the order of their byte values.
Ascii ==
  << " ", "#", ",", "-", ".", "/",
     "0", "1", "2", "3", "4", "5", "6", "7", "8", "9", "<", ">",
     "A", "B", "C", "D", "E", "F", "G", "H", "I", "J", "K", "L", "M",
     "N", "O", "P", "Q", "R", "S", "T", "U", "V", "W", "X", "Y", "Z",
     "_",
     "a", "b", "c", "d", "e", "f", "g", "h", "i", "j", "k", "l", "m",
     "n", "o", "p", "q", "r", "s", "t", "u", "v", "w", "x", "y", "z" >>

Chars == { Ascii[i] : i \in 1..Len(Ascii) }

\* The rank of a character: bytes compare as their ranks do.
Rank == [ c \in Chars |-> CHOOSE i \in 1..Len(Ascii) : Ascii[i] = c ]

IsLower(c) == Rank[c] >= Rank["a"] /\ Rank[c] <= Rank["z"]
IsUpper(c) == Rank[c] >= Rank["A"] /\ Rank[c] <= Rank["Z"]
IsDigit(c) == Rank[c] >= Rank["0"] /\ Rank[c] <= Rank["9"]

\* r - 'a' + 'A' and r - 'A' + 'a'
UpperOf(c) == IF IsLower(c) THEN Ascii[Rank[c] - Rank["a"] + Rank["A"]] ELSE c
LowerOf(c) == IF IsUpper(c) THEN Ascii[Rank[c] - Rank["A"] + Rank["a"]] ELSE c

\* strings.ToUpper
ToUpper(s) == [ i \in 1..Len(s) |-> UpperOf(s[i]) ]

\* strings.ReplaceAll(s, from, to) for one-character from and to
ReplaceAll(s, from, to) == [ i \in 1..Len(s) |-> IF s[i] = from THEN to ELSE s[i] ]

\* strings.Split(s, sep) for a one-character sep
RECURSIVE Split(_, _)
Split(s, sep) ==
  IF \E i \in 1..Len(s) : s[i] = sep
  THEN LET i == CHOOSE j \in 1..Len(s) :
                  s[j] = sep /\ \A k \in 1..(j - 1) : s[k] # sep
       IN  << SubSeq(s, 1, i - 1) >> \o Split(SubSeq(s, i + 1, Len(s)), sep)
  ELSE << s >>

\* strings.Join(parts, "")
RECURSIVE Join(_)
Join(parts) == IF parts = << >> THEN << >> ELSE Head(parts) \o Join(Tail(parts))

\* strings.Trim(s, cut) for a one-character cut
RECURSIVE TrimLeft(_, _)
TrimLeft(s, cut) ==
  IF s # << >> /\ Head(s) = cut THEN TrimLeft(Tail(s), cut) ELSE s

RECURSIVE TrimRight(_, _)
TrimRight(s, cut) ==
  IF s # << >> /\ s[Len(s)] = cut THEN TrimRight(SubSeq(s, 1, Len(s) - 1), cut) ELSE s

Trim(s, cut) == TrimRight(TrimLeft(s, cut), cut)

\* strings.TrimSpace: the space is the only white space among Chars
TrimSpace(s) == Trim(s, " ")

\* fmt.Sprintf("%d", n) for n >= 0
RECURSIVE Itoa(_)
Itoa(n) ==
  IF n < 10 THEN << Ascii[Rank["0"] + n] >>
  ELSE Itoa(n \div 10) \o << Ascii[Rank["0"] + (n % 10)] >>

\* a < b as Go compares strings: byte by byte, a proper prefix first
RECURSIVE StrLess(_, _)
StrLess(a, b) ==
  IF b = << >> THEN FALSE
  ELSE IF a = << >> THEN TRUE
  ELSE IF Head(a) # Head(b) THEN Rank[Head(a)] < Rank[Head(b)]
  ELSE StrLess(Tail(a), Tail(b))

\* sort.Strings: the strings of a sequence in increasing order
RECURSIVE Insert(_, _)
Insert(x, sorted) ==
  IF sorted = << >> THEN << x >>
  ELSE IF StrLess(x, Head(sorted)) THEN << x >> \o sorted
  ELSE << Head(sorted) >> \o Insert(x, Tail(sorted))

RECURSIVE SortStrings(_)
SortStrings(xs) ==
  IF xs = << >> THEN << >> ELSE Insert(Head(xs), SortStrings(Tail(xs)))

\* ---------------------------------------------------------------- naming

nonAlnumReplace(s) ==
  ReplaceAll(ReplaceAll(ReplaceAll(s, "-", "_"), ".", "_"), " ", "_")

isAllUpper(s) == \A i \in 1..Len(s) : ~IsLower(s[i])

upperCamelPart(p) ==
  IF p = << >> THEN p
  ELSE IF isAllUpper(p) /\ Len(p) > 1 THEN p
  ELSE IF Len(p) = 1 THEN ToUpper(p)
  ELSE ToUpper(SubSeq(p, 1, 1)) \o SubSeq(p, 2, Len(p))

upperCamelParts(parts) == Join([ i \in 1..Len(parts) |-> upperCamelPart(parts[i]) ])

upperCamel(s) == IF s = << >> THEN << >> ELSE upperCamelParts(Split(s, "_"))

RECURSIVE lowerSnakeFrom(_, _)
lowerSnakeFrom(s, i) ==
  IF i > Len(s) THEN << >>
  ELSE LET r == s[i]
           here == IF IsUpper(r)
                   THEN (IF i > 1 THEN << "_" >> ELSE << >>) \o << LowerOf(r) >>
                   ELSE IF IsLower(r) \/ IsDigit(r) THEN << r >>
                   ELSE << "_" >>
       IN  here \o lowerSnakeFrom(s, i + 1)

lowerSnake(s) == Trim(lowerSnakeFrom(TrimSpace(s), 1), "_")

normalizeMessage(name) == upperCamel(nonAlnumReplace(name))

normalizeField(name) == lowerSnake(nonAlnumReplace(name))

toEnumValue(s) == ReplaceAll(ReplaceAll(ToUpper(s), "-", "_"), " ", "_")

\* ------------------------------------------------------------ constants

\* The string constants of the code.
sString == << "s", "t", "r", "i", "n", "g" >>
sBytes == << "b", "y", "t", "e", "s" >>
sInt32 == << "i", "n", "t", "3", "2" >>
sInt64 == << "i", "n", "t", "6", "4" >>
sFloat == << "f", "l", "o", "a", "t" >>
sDouble == << "d", "o", "u", "b", "l", "e" >>
sBool == << "b", "o", "o", "l" >>
sRepeated == << "r", "e", "p", "e", "a", "t", "e", "d", " " >>
sMapOpen == << "m", "a", "p", "<", "s", "t", "r", "i", "n", "g", "," >>
sMapClose == << ">" >>
sValue == << "v", "a", "l", "u", "e" >>
sEntries == << "e", "n", "t", "r", "i", "e", "s" >>
sItemSuffix == << "_", "i", "t", "e", "m" >>
sValueSuffix == << "_", "v", "a", "l", "u", "e" >>
sChoice == << "c", "h", "o", "i", "c", "e", "_" >>
sAlt == << "a", "l", "t", "_" >>
sAnyofValue == << "a", "n", "y", "o", "f", "_", "v", "a", "l", "u", "e" >>
sOneOfGroup == << "o", "n", "e", "_", "o", "f" >>
sAnyOfGroup == << "a", "n", "y", "_", "o", "f" >>
sUnspecified == << "_", "U", "N", "S", "P", "E", "C", "I", "F", "I", "E", "D" >>
sRefPrefix ==
  << "#", "/", "c", "o", "m", "p", "o", "n", "e", "n", "t", "s", "/",
     "s", "c", "h", "e", "m", "a", "s", "/" >>

\* --------------------------------------------------------------- schemas

\* A nil pointer, map or slice; Some(v) is a present one.
Nil == << >>
Some(v) == << v >>

\* len(x) and the elements of a slice that may be nil
SliceOf(x) == IF x = Nil THEN << >> ELSE x[1]

\* The keys of a map that may be nil, and len(m)
KeysOf(m) == IF m = Nil THEN {} ELSE DOMAIN m[1]

\* &Schema{}: every field at its zero value
EmptySchema ==
  [ Ref |-> << >>, Type |-> "", Format |-> "", Enum |-> << >>,
    Properties |-> Nil, Items |-> Nil, OneOf |-> Nil, AllOf |-> Nil,
    AnyOf |-> Nil, Nullable |-> FALSE, AddlProps |-> Nil ]

VARIABLES
  input,    \* components.schemas as the document lists it: <<name, schema>> pairs
  doc,      \* doc.Components.Schemas, the map the document is parsed into
  cfg,      \* the flags: useOptional, anyOfMode, sortFields
  pc,       \* where main is: "names", "loop", "done", "crashed"
  names,    \* main's names
  next,     \* the index of main's loop over names
  visited,  \* genContext.visited
  out,      \* the lines written to the strings.Builder b
  stack     \* the calls of emitSchema and emitMessage in progress

vars == << input, doc, cfg, pc, names, next, visited, out, stack >>

\* refTarget following a second reference: a resolution that is not single-hop
refTargetChained(s, parts) ==
  IF Len(parts) > 0 /\ parts[Len(parts)] \in DOMAIN doc
  THEN IF doc[parts[Len(parts)]].Ref # << >>
          /\ Split(doc[parts[Len(parts)]].Ref, "/")[Len(Split(doc[parts[Len(parts)]].Ref, "/"))]
               \in DOMAIN doc
       THEN doc[Split(doc[parts[Len(parts)]].Ref, "/")[Len(Split(doc[parts[Len(parts)]].Ref, "/"))]]
       ELSE doc[parts[Len(parts)]]
  ELSE s

\* The schema a reference s names: the last part of its path, looked up in
\* the registry (resolveRef, lines 350-357)
refTarget(s, parts) ==
  IF Len(parts) > 0 /\ parts[Len(parts)] \in DOMAIN doc
  THEN doc[parts[Len(parts)]] ELSE s

\* g.resolveRef(s) for a pointer s
resolveRef(s) ==
  IF s = Nil THEN EmptySchema
  ELSE IF s[1].Ref = << >> THEN s[1]
  ELSE refTarget(s[1], Split(s[1].Ref, "/"))

\* mergeInto keeping the properties base has already: the earlier branch wins
mergeIntoKeep(base, add) ==
  IF add.Properties = Nil THEN base
  ELSE [ k \in DOMAIN base \cup DOMAIN add.Properties[1] |->
           IF k \in DOMAIN base THEN base[k] ELSE add.Properties[1][k] ]

\* mergeInto(base, add), on the Properties of base
mergeInto(base, add) ==
  IF add.Properties = Nil THEN base
  ELSE [ k \in DOMAIN base \cup DOMAIN add.Properties[1] |->
           IF k \in DOMAIN add.Properties[1] THEN add.Properties[1][k] ELSE base[k] ]

\* The loop of emitMessage over s.AllOf, from branch i on
RECURSIVE mergeAllOf(_, _, _)
mergeAllOf(merged, parts, i) ==
  IF i > Len(parts) THEN merged
  ELSE mergeAllOf(mergeInto(merged, resolveRef(Some(parts[i]))), parts, i + 1)

\* The loop of emitMessage over s.Properties (lines 147-149)
ownOver(fromAllOf, s) ==
  IF s.Properties = Nil THEN fromAllOf
  ELSE [ k \in DOMAIN fromAllOf \cup DOMAIN s.Properties[1] |->
           IF k \in DOMAIN s.Properties[1] THEN s.Properties[1][k] ELSE fromAllOf[k] ]

\* merged.Properties of emitMessage: the allOf branches, then the own properties
mergedProperties(s) == ownOver(mergeAllOf(<< >>, SliceOf(s.AllOf), 1), s)

\* A result of fieldType: the type, the nested (name, schema) to emit or Nil, and
\* whether the recursion ran out of stack.
FieldType(t, n) == [ type |-> t, nested |-> n, overflow |-> FALSE ]
FieldTypeOverflow == [ type |-> << >>, nested |-> Nil, overflow |-> TRUE ]
Nested(n, s) == Some([ name |-> n, schema |-> s ])

\* return n, []any{n, s}
nestedAs(n, s) == FieldType(n, Nested(n, s))

\* return normalizeMessage(name), []any{normalizeMessage(name), s}
nestedType(name, s) == nestedAs(normalizeMessage(name), s)

\* fieldType, lines 300-303: the type of an array whose element mapped to r
repeatedOf(r) ==
  IF r.overflow THEN r
  ELSE IF r.nested # Nil THEN FieldType(sRepeated \o r.nested[1].name, r.nested)
  ELSE FieldType(sRepeated \o r.type, Nil)

\* fieldType, lines 307-310: the type of a map whose value mapped to r
mapOf(r) ==
  IF r.overflow THEN r
  ELSE IF r.nested # Nil
  THEN FieldType(sMapOpen \o r.nested[1].name \o sMapClose, r.nested)
  ELSE FieldType(sMapOpen \o r.type \o sMapClose, Nil)

\* g.fieldType(name, s) with room for fuel more calls on the stack;
\* fieldTypeOf is its body after s = g.resolveRef(s)
RECURSIVE fieldTypeOf(_, _, _)
fieldType(name, p, fuel) == fieldTypeOf(name, resolveRef(p), fuel)

fieldTypeOf(name, s, fuel) ==
  IF Len(s.Enum) > 0 THEN nestedType(name, s)
  ELSE CASE s.Type = "string" ->
              IF s.Format = "byte" \/ s.Format = "binary"
              THEN FieldType(sBytes, Nil) ELSE FieldType(sString, Nil)
         [] s.Type = "integer" ->
              IF s.Format = "int32"
              THEN FieldType(sInt32, Nil) ELSE FieldType(sInt64, Nil)
         [] s.Type = "number" ->
              IF s.Format = "float"
              THEN FieldType(sFloat, Nil) ELSE FieldType(sDouble, Nil)
         [] s.Type = "boolean" -> FieldType(sBool, Nil)
         [] s.Type = "array" ->
              IF s.Items = Nil THEN FieldType(sRepeated \o sString, Nil)
              ELSE IF fuel = 0 THEN FieldTypeOverflow
              ELSE repeatedOf(fieldTypeOf(name \o sItemSuffix, resolveRef(s.Items),
                                          fuel - 1))
         [] s.Type = "object" ->
              IF KeysOf(s.Properties) = {} /\ s.AddlProps # Nil
              THEN IF fuel = 0 THEN FieldTypeOverflow
                   ELSE mapOf(fieldTypeOf(name \o sValueSuffix, resolveRef(s.AddlProps),
                                          fuel - 1))
              ELSE nestedType(name, s)
         [] OTHER ->
              IF s.OneOf # Nil \/ s.AllOf # Nil \/ s.AnyOf # Nil
              THEN nestedType(name, s)
              ELSE FieldType(sString, Nil)

\* g.scalarType(s)
scalarTypeOf(s) ==
  CASE s.Type = "string" -> sString
    [] s.Type = "integer" -> IF s.Format = "int32" THEN sInt32 ELSE sInt64
    [] s.Type = "number" -> IF s.Format = "float" THEN sFloat ELSE sDouble
    [] s.Type = "boolean" -> sBool
    [] OTHER -> sString

scalarType(p) == scalarTypeOf(resolveRef(p))

isScalar(t) == t \in { sString, sInt32, sInt64, sDouble, sFloat, sBool, sBytes }

\* ----------------------------------------------------------------- bounds

\* The calls the stack holds before the Go runtime ends the program with a
\* stack overflow (the runtime's limit is 1 GB of stack; any limit gives the
\* same runs of a registry whose nesting is finite and smaller).
StackLimit == 6

\* The most branches a generated oneOf or anyOf list has.
MaxBranches == 2

\* ------------------------------------------------------------ the output

\* One line written to b.  src, how, via, prop and node are not text of the
\* line: they record which emitSchema call wrote it (its name argument), how
\* that call was made ("main", "eager": line 195, "queue": line 258), the
\* name of the message that made it, and for a field the property name and
\* the schema it was mapped from.
Line ==
  [ kind |-> "", src |-> << >>, how |-> "", via |-> << >>, ident |-> << >>,
    type |-> << >>, field |-> << >>, num |-> 0, opt |-> FALSE, group |-> "",
    prop |-> << >>, node |-> EmptySchema ]

HeaderLine(kind, f, ident, node) ==
  [ Line EXCEPT !.kind = kind, !.src = f.name, !.how = f.how, !.via = f.via,
                !.ident = ident, !.node = node ]

FieldLine(src, group, opt, type, field, num, prop, node) ==
  [ Line EXCEPT !.kind = "field", !.src = src, !.group = group, !.opt = opt,
                !.type = type, !.field = field, !.num = num, !.prop = prop,
                !.node = node ]

GroupLine(kind, src, ident) ==
  [ Line EXCEPT !.kind = kind, !.src = src, !.ident = ident ]

\* ------------------------------------------------------------- the stack

\* A call in progress: emitSchema(b, name, schema) about to run, or
\* emitMessage(b, name, s) at one of its phases.
Frame ==
  [ fn |-> "", name |-> << >>, schema |-> Nil, how |-> "", via |-> << >>,
    phase |-> "", msgName |-> << >>, s |-> EmptySchema, merged |-> << >>,
    toEmit |-> << >>, fieldNum |-> 0, drain |-> 0, valType |-> << >> ]

Call(name, schema, how, via) ==
  [ Frame EXCEPT !.fn = "emitSchema", !.name = name, !.schema = schema,
                 !.how = how, !.via = via ]

Top == stack[Len(stack)]
Caller == SubSeq(stack, 1, Len(stack) - 1)
Fuel == StackLimit - Len(stack)

\* The orders in which a range over a Go map with these keys can yield them
Orders(keys) ==
  { p \in [ 1..Cardinality(keys) -> keys ] : \A k \in keys : \E i \in DOMAIN p : p[i] = k }

\* ------------------------------------------------------- emitMessage loops

\* pending{name, schema}
Pending(n, s) == [ name |-> n, schema |-> s ]

\* The type of a field and the nested schema queued for it, for the
\* flattened name flatName
flattened(flatName, schema) ==
  [ ptype |-> flatName,
    pend |-> IF flatName \notin visited THEN << Pending(flatName, schema) >> ELSE << >> ]

\* The flattening that follows every call of fieldType in emitMessage (lines
\* 169-178, 207-214, 224-231, 240-247), r being what fieldType returned
Flatten(msgName, r) ==
  IF r.nested # Nil
  THEN flattened(normalizeMessage(msgName \o << "_" >> \o r.nested[1].name),
                 r.nested[1].schema)
  ELSE [ ptype |-> r.type, pend |-> << >> ]

\* What a loop of emitMessage has done so far
Acc(lines, toEmit, fieldNum, overflow) ==
  [ lines |-> lines, toEmit |-> toEmit, fieldNum |-> fieldNum, overflow |-> overflow ]

Overflowed(acc) == Acc(acc.lines, acc.toEmit, acc.fieldNum, TRUE)

\* One more field line, with the pending it queued
withField(acc, line, pend) ==
  Acc(acc.lines \o << [ line EXCEPT !.num = acc.fieldNum ] >>, acc.toEmit \o pend,
      acc.fieldNum + 1, FALSE)

\* One more line that is no field
withLine(acc, line) == Acc(acc.lines \o << line >>, acc.toEmit, acc.fieldNum, acc.overflow)

\* Lines 179-188: the field of property prop, fl being its flattened type
propField(acc, src, prop, ps, fl) ==
  withField(acc,
            FieldLine(src, "prop", ps.Nullable /\ cfg.useOptional /\ isScalar(fl.ptype),
                      fl.ptype, normalizeField(prop), 0, prop, ps),
            fl.pend)

\* Lines 167-188: one round of the loop over propNames, r being what
\* fieldType returned
propStep(acc, src, msgName, prop, ps, r) ==
  IF r.overflow THEN Overflowed(acc)
  ELSE propField(acc, src, prop, ps, Flatten(msgName, r))

\* The loop over propNames, from index i on
RECURSIVE propLoop(_, _, _, _, _, _)
propLoop(acc, src, msgName, merged, propNames, i) ==
  IF i > Len(propNames) \/ acc.overflow THEN acc
  ELSE propLoop(propStep(acc, src, msgName, propNames[i], merged[propNames[i]],
                         fieldType(propNames[i], Some(merged[propNames[i]]), Fuel)),
                src, msgName, merged, propNames, i + 1)

\* Lines 215 and 248: the field of a branch, fl being its flattened type
branchField(acc, src, group, local, branch, fl) ==
  withField(acc, FieldLine(src, group, FALSE, fl.ptype, local, 0, << >>, branch), fl.pend)

\* One round of the loop over the branches, the field being named local
branchStep(acc, src, msgName, group, local, branch, r) ==
  IF r.overflow THEN Overflowed(acc)
  ELSE branchField(acc, src, group, local, branch, Flatten(msgName, r))

branchNamed(acc, src, msgName, group, local, branch) ==
  branchStep(acc, src, msgName, group, local, branch, fieldType(local, Some(branch), Fuel))

\* The loop over the branches of s.OneOf (prefix "choice_") or of s.AnyOf
\* (prefix "alt_"), from index idx on
RECURSIVE branchLoop(_, _, _, _, _, _, _)
branchLoop(acc, src, msgName, group, prefix, branches, idx) ==
  IF idx > Len(branches) \/ acc.overflow THEN acc
  ELSE branchLoop(branchNamed(acc, src, msgName, group, prefix \o Itoa(idx),
                              branches[idx]),
                  src, msgName, group, prefix, branches, idx + 1)

\* A oneof block: its opening line, its branches and its closing line
groupBlock(acc, f, group, ident, prefix, branches) ==
  withLine(branchLoop(withLine(acc, GroupLine("oneof", f.name, ident)),
                      f.name, f.msgName, group, prefix, branches, 1),
           GroupLine("endoneof", f.name, ident))

\* The oneOf block of emitMessage (lines 201-219)
oneOfBlock(acc, f) ==
  IF Len(SliceOf(f.s.OneOf)) > 0
  THEN groupBlock(acc, f, "one_of", sOneOfGroup, sChoice, SliceOf(f.s.OneOf))
  ELSE acc

\* Lines 232-233: the repeated field of the first anyOf branch
repeatField(acc, src, branch, fl) ==
  withField(acc, FieldLine(src, "repeat", FALSE, sRepeated \o fl.ptype, sAnyofValue, 0,
                           << >>, branch),
            fl.pend)

repeatStep(acc, src, msgName, branch, r) ==
  IF r.overflow THEN Overflowed(acc)
  ELSE repeatField(acc, src, branch, Flatten(msgName, r))

\* The anyOf block of emitMessage (lines 221-253)
anyOfBlock(acc, f) ==
  IF acc.overflow THEN acc
  ELSE IF Len(SliceOf(f.s.AnyOf)) > 0
  THEN IF cfg.anyOfMode = "repeat"
       THEN repeatStep(acc, f.name, f.msgName, f.s.AnyOf[1][1],
                       fieldType(sAnyofValue, Some(f.s.AnyOf[1][1]), Fuel))
       ELSE groupBlock(acc, f, "any_of", sAnyOfGroup, sAlt, SliceOf(f.s.AnyOf))
  ELSE acc

\* Lines 200-253 of emitMessage for the frame f
composed(f) ==
  anyOfBlock(oneOfBlock(Acc(<< >>, f.toEmit, f.fieldNum, FALSE), f), f)

\* emitEnum: the lines of the enum enumName
enumLines(f, enumName, s) ==
  << HeaderLine("enum", f, enumName, s),
     [ Line EXCEPT !.kind = "member", !.src = f.name,
                   !.field = ToUpper(enumName) \o sUnspecified ] >>
  \o [ i \in 1..Len(s.Enum) |->
         [ Line EXCEPT !.kind = "member", !.src = f.name,
                       !.field = ToUpper(enumName) \o << "_" >> \o toEnumValue(s.Enum[i]),
                       !.num = i ] ]
  \o << GroupLine("close", f.name, << >>) >>

emitEnum(f, s) == enumLines(f, normalizeMessage(f.name), s)

\* emitSchema, lines 123-124: the lines of the wrapper of a primitive
wrapperLines(f, resolved) ==
  << [ Line EXCEPT !.kind = "comment", !.src = f.name, !.prop = f.name ],
     [ HeaderLine("wrapper", f, normalizeMessage(f.name), resolved)
         EXCEPT !.type = scalarType(Some(resolved)), !.field = sValue, !.num = 1 ] >>

\* ------------------------------------------------------------------ main

\* Lines 78-84: names, order being the order in which the range over the map
\* of the schemas yields them
namesOf(order) == IF cfg.sortFields THEN SortStrings(order) ELSE order

\* main, lines 77-86: the names of the schemas as the range over the map
\* yields them, sorted when -sort is set, and the fresh genContext
Main_Names ==
  /\ pc = "names"
  /\ \E order \in Orders(DOMAIN doc) : names' = namesOf(order)
  /\ next' = 1
  /\ visited' = {}
  /\ pc' = "loop"
  /\ UNCHANGED << input, doc, cfg, out, stack >>

\* main, lines 88-90: the next call ctx.emitSchema(&b, name, doc...[name])
Main_Call ==
  /\ pc = "loop"
  /\ stack = << >>
  /\ next <= Len(names)
  /\ stack' = << Call(names[next], Some(doc[names[next]]), "main", << >>) >>
  /\ next' = next + 1
  /\ UNCHANGED << input, doc, cfg, pc, names, visited, out >>

\* main, lines 92-97: the loop is over and the output is written
Main_Done ==
  /\ pc = "loop"
  /\ stack = << >>
  /\ next > Len(names)
  /\ pc' = "done"
  /\ UNCHANGED << input, doc, cfg, names, next, visited, out, stack >>

\* ------------------------------------------------------------ emitSchema

Running == pc = "loop" /\ stack # << >>

\* Whether emitSchema hands the resolved schema to emitMessage (line 118)
isMessage(resolved) ==
  \/ resolved.Type = "object"
  \/ resolved.Properties # Nil
  \/ resolved.AllOf # Nil
  \/ resolved.OneOf # Nil
  \/ resolved.AnyOf # Nil
  \/ resolved.AddlProps # Nil

\* emitSchema forgetting to mark the name
markVisitedNot(name) == visited

\* g.visited[name] = true (line 112): the visited set after it
markVisited(name) == visited \cup { name }

\* emitSchema, lines 109-111: the name is visited already
EmitSchema_Visited ==
  /\ Running
  /\ Top.fn = "emitSchema"
  /\ Top.name \in visited
  /\ stack' = Caller
  /\ UNCHANGED << input, doc, cfg, pc, names, next, visited, out >>

\* emitSchema, lines 112-116, and emitEnum
EmitSchema_Enum ==
  /\ Running
  /\ Top.fn = "emitSchema"
  /\ Top.name \notin visited
  /\ Len(resolveRef(Top.schema).Enum) > 0
  /\ visited' = markVisited(Top.name)
  /\ out' = out \o emitEnum(Top, resolveRef(Top.schema))
  /\ stack' = Caller
  /\ UNCHANGED << input, doc, cfg, pc, names, next >>

\* emitSchema, lines 112-120: the call of emitMessage
EmitSchema_Message ==
  /\ Running
  /\ Top.fn = "emitSchema"
  /\ Top.name \notin visited
  /\ Len(resolveRef(Top.schema).Enum) = 0
  /\ isMessage(resolveRef(Top.schema))
  /\ visited' = markVisited(Top.name)
  /\ stack' = Caller \o
       << [ Top EXCEPT !.fn = "emitMessage", !.s = resolveRef(Top.schema),
                       !.phase = "fields" ] >>
  /\ UNCHANGED << input, doc, cfg, pc, names, next, out >>

\* emitSchema, lines 112-124: a primitive, wrapped in a message
EmitSchema_Primitive ==
  /\ Running
  /\ Top.fn = "emitSchema"
  /\ Top.name \notin visited
  /\ Len(resolveRef(Top.schema).Enum) = 0
  /\ ~isMessage(resolveRef(Top.schema))
  /\ visited' = markVisited(Top.name)
  /\ out' = out \o wrapperLines(Top, resolveRef(Top.schema))
  /\ stack' = Caller
  /\ UNCHANGED << input, doc, cfg, pc, names, next >>

\* ----------------------------------------------------------- emitMessage

\* propNames left as the range over the map yields them
propNamesUnsorted(order) == order

\* Lines 153-159: propNames, order being the order in which the range over
\* merged.Properties yields the names
propNamesOf(order) == IF cfg.sortFields THEN SortStrings(order) ELSE order

\* Lines 138-189 for the frame f: what the loop over propNames has done
fieldsOf(f, msgName, merged, order) ==
  propLoop(Acc(<< >>, << >>, 1, FALSE), f.name, msgName, merged, propNamesOf(order), 1)

\* The state after lines 138-189, done being what the loop has done
AfterFields(msgName, merged, done) ==
  /\ ~done.overflow
  /\ out' = out \o << HeaderLine("message", Top, msgName, Top.s) >> \o done.lines
  /\ stack' = Caller \o
       << [ Top EXCEPT !.msgName = msgName, !.merged = merged, !.toEmit = done.toEmit,
                       !.fieldNum = done.fieldNum, !.phase = "map" ] >>

FieldsIn(msgName, merged) ==
  \E order \in Orders(DOMAIN merged) :
    AfterFields(msgName, merged, fieldsOf(Top, msgName, merged, order))

\* emitMessage, lines 138-189: the header, the merge and the loop over the
\* properties, in the order the range over merged.Properties yields them
\* (sorted when -sort is set)
EmitMessage_Fields ==
  /\ Running
  /\ Top.fn = "emitMessage"
  /\ Top.phase = "fields"
  /\ FieldsIn(normalizeMessage(Top.name), mergedProperties(Top.s))
  /\ UNCHANGED << input, doc, cfg, pc, names, next, visited >>

\* Whether emitMessage writes the entries field (line 192)
isMapShape(f) == f.s.AddlProps # Nil /\ Cardinality(DOMAIN f.merged) = 0

\* The state after lines 193-196, r being what fieldType returned
AfterValueType(r) ==
  /\ ~r.overflow
  /\ IF r.nested # Nil
     THEN /\ Len(stack) < StackLimit
          /\ stack' = Caller \o
               << [ Top EXCEPT !.valType = r.type, !.phase = "entries" ],
                  Call(r.nested[1].name, Some(r.nested[1].schema), "eager", Top.name) >>
     ELSE stack' = Caller \o << [ Top EXCEPT !.valType = r.type, !.phase = "entries" ] >>

\* emitMessage, lines 192-196: the type of the map's values, and the call of
\* emitSchema for a nested one
EmitMessage_Map ==
  /\ Running
  /\ Top.fn = "emitMessage"
  /\ Top.phase = "map"
  /\ IF isMapShape(Top)
     THEN AfterValueType(fieldType(sValue, Top.s.AddlProps, Fuel))
     ELSE stack' = Caller \o << [ Top EXCEPT !.phase = "compose" ] >>
  /\ UNCHANGED << input, doc, cfg, pc, names, next, visited, out >>

\* emitMessage, line 197: the entries field
EmitMessage_Entries ==
  /\ Running
  /\ Top.fn = "emitMessage"
  /\ Top.phase = "entries"
  /\ out' = out \o
       << FieldLine(Top.name, "map", FALSE, sMapOpen \o Top.valType \o sMapClose,
                    sEntries, 1, << >>, Top.s.AddlProps[1]) >>
  /\ stack' = Caller \o << [ Top EXCEPT !.phase = "compose" ] >>
  /\ UNCHANGED << input, doc, cfg, pc, names, next, visited >>

\* The state after lines 200-255, done being what the two blocks have done
AfterCompose(done) ==
  /\ ~done.overflow
  /\ out' = out \o done.lines \o << GroupLine("close", Top.name, << >>) >>
  /\ stack' = Caller \o
       << [ Top EXCEPT !.toEmit = done.toEmit, !.fieldNum = done.fieldNum,
                       !.phase = "drain", !.drain = 1 ] >>

\* emitMessage, lines 200-255: the oneOf block, the anyOf block and the end
\* of the message
EmitMessage_Compose ==
  /\ Running
  /\ Top.fn = "emitMessage"
  /\ Top.phase = "compose"
  /\ AfterCompose(composed(Top))
  /\ UNCHANGED << input, doc, cfg, pc, names, next, visited >>

\* The loop over toEmit taking the last pending first
pendingAtLast(f) == f.toEmit[Len(f.toEmit) - f.drain + 1]

\* The pending the loop over toEmit is at (line 257)
pendingAt(f) == f.toEmit[f.drain]

\* emitMessage, lines 257-259: the call of emitSchema for the next pending
EmitMessage_Drain ==
  /\ Running
  /\ Top.fn = "emitMessage"
  /\ Top.phase = "drain"
  /\ Top.drain <= Len(Top.toEmit)
  /\ Len(stack) < StackLimit
  /\ stack' = Caller \o
       << [ Top EXCEPT !.drain = Top.drain + 1 ],
          Call(pendingAt(Top).name, Some(pendingAt(Top).schema), "queue", Top.name) >>
  /\ UNCHANGED << input, doc, cfg, pc, names, next, visited, out >>

\* emitMessage, line 260: the return
EmitMessage_Return ==
  /\ Running
  /\ Top.fn = "emitMessage"
  /\ Top.phase = "drain"
  /\ Top.drain > Len(Top.toEmit)
  /\ stack' = Caller
  /\ UNCHANGED << input, doc, cfg, pc, names, next, visited, out >>

\* Whether a call of emitSchema for the nested schema of r, or fieldType
\* itself, needs more stack than there is
valueBlows(r) == r.overflow \/ (r.nested # Nil /\ Len(stack) >= StackLimit)

fieldsBlow(f, merged) ==
  fieldsOf(f, normalizeMessage(f.name), merged,
           CHOOSE o \in Orders(DOMAIN merged) : TRUE).overflow

\* Whether the next step of the call on top needs more stack than there is
Blows(f) ==
  /\ f.fn = "emitMessage"
  /\ CASE f.phase = "fields" -> fieldsBlow(f, mergedProperties(f.s))
       [] f.phase = "map" ->
            isMapShape(f) /\ valueBlows(fieldType(sValue, f.s.AddlProps, Fuel))
       [] f.phase = "compose" -> composed(f).overflow
       [] f.phase = "drain" -> f.drain <= Len(f.toEmit) /\ Len(stack) >= StackLimit
       [] OTHER -> FALSE

\* The recursion of emitSchema, emitMessage and fieldType exceeds the stack:
\* the Go runtime ends the program (fatal error: stack overflow), and no
\* output file is written
StackOverflow ==
  /\ Running
  /\ Blows(Top)
  /\ pc' = "crashed"
  /\ UNCHANGED << input, doc, cfg, names, next, visited, out, stack >>

\* ------------------------------------------------------------- documents

RefTo(name) == [ EmptySchema EXCEPT !.Ref = sRefPrefix \o name ]
Scalar(type, format) == [ EmptySchema EXCEPT !.Type = type, !.Format = format ]
Object(props) == [ EmptySchema EXCEPT !.Type = "object", !.Properties = Some(props) ]
ArrayOf(items) == [ EmptySchema EXCEPT !.Type = "array", !.Items = Some(items) ]
MapOf(value) == [ EmptySchema EXCEPT !.Type = "object", !.AddlProps = Some(value) ]

tStr == Scalar("string", "")
tInt32 == Scalar("integer", "int32")
tBool == Scalar("boolean", "")
tNullStr == [ tStr EXCEPT !.Nullable = TRUE ]
tEnum == [ tStr EXCEPT !.Enum = << << "o", "n" >>, << "o", "f", "f" >> >> ]
tLeaf == Object(<< "x" >> :> tStr)
tDeep == Object(<< "y" >> :> tLeaf)

\* The oneOf and anyOf lists of the generated schemas: nil, or up to
\* MaxBranches branches, each a string or an inline object
BranchLists ==
  { Nil } \cup
  { Some(bs) : bs \in UNION { [ 1..n -> { tStr, tLeaf } ] : n \in 1..MaxBranches } }

\* Documents with one schema M of every combination of properties,
\* additionalProperties, oneOf and anyOf
ShapeInputs ==
  { << << << "M" >>,
          [ EmptySchema EXCEPT !.Type = "object", !.Properties = props,
                               !.AddlProps = addl, !.OneOf = one, !.AnyOf = any ] >> >> :
      props \in { Nil, Some(<< "i", "d" >> :> tInt32) },
      addl \in { Nil, Some(tStr), Some(tLeaf) },
      one \in BranchLists,
      any \in BranchLists }

\* Nested objects, two levels deep, beside a nullable scalar
NestInput ==
  << << << "P", "e", "t" >>,
        Object(<< "a" >> :> tDeep @@ << "b" >> :> tLeaf @@ << "c" >> :> tNullStr) >> >>

\* Arrays of objects and of strings, and an enum
ArrayInput ==
  << << << "P", "e", "t" >>,
        Object(<< "t", "a", "g", "s" >> :> ArrayOf(tLeaf)
               @@ << "i", "d", "s" >> :> ArrayOf(tStr)
               @@ << "k", "i", "n", "d" >> :> tEnum) >> >>

\* Maps as properties and a map of enums at the top level
MapInput ==
  << << << "P", "e", "t" >>,
        Object(<< "m" >> :> MapOf(tLeaf) @@ << "n" >> :> MapOf(tStr)) >>,
     << << "D", "i", "c", "t" >>, MapOf(tEnum) >> >>

\* allOf: two referenced branches and an inline one, under an own property
AllOfInput ==
  << << << "O" >>,
        [ EmptySchema EXCEPT
            !.AllOf = Some(<< RefTo(<< "B", "1" >>), RefTo(<< "B", "2" >>),
                              Object(<< "i", "d" >> :> tStr) >>),
            !.Properties = Some(<< "s", "t" >> :> tStr) ] >>,
     << << "B", "1" >>,
        Object(<< "s", "t" >> :> tInt32 @@ << "i", "d" >> :> tInt32) >>,
     << << "B", "2" >>,
        [ EmptySchema EXCEPT
            !.AllOf = Some(<< RefTo(<< "B", "1" >>), Object(<< "s", "t" >> :> tBool) >>) ] >> >>

\* A chain of references, a dangling reference and a top-level scalar
RefInput ==
  << << << "A" >>, RefTo(<< "B" >>) >>,
     << << "B" >>, RefTo(<< "C" >>) >>,
     << << "C" >>, tInt32 >>,
     << << "D" >>, Object(<< "p" >> :> RefTo(<< "A" >>)
                          @@ << "q" >> :> RefTo(<< "Z" >>)
                          @@ << "r" >> :> RefTo(<< "C" >>)) >> >>

\* A reference to a message at the top level
RefMessageInput ==
  << << << "E" >>, RefTo(<< "D" >>) >>,
     << << "D" >>, Object(<< "q" >> :> RefTo(<< "Z" >>) @@ << "r" >> :> RefTo(<< "E" >>)) >> >>

\* A schema that refers to itself through a property
CycleInput ==
  << << << "N" >>, Object(<< "n", "e", "x", "t" >> :> RefTo(<< "N" >>)) >> >>

\* A schema that refers to itself through its array elements
ArrayCycleInput ==
  << << << "R" >>, Object(<< "p" >> :> RefTo(<< "L" >>)) >>,
     << << "L" >>, ArrayOf(RefTo(<< "L" >>)) >> >>

\* Names that normalizeMessage maps to one identifier
CollideInput ==
  << << << "a", "_", "b" >>, Object(<< "x" >> :> tStr) >>,
     << << "A", "B" >>, Object(<< "y" >> :> tInt32) >>,
     << << "A" >>, Object(<< "b" >> :> tLeaf) >> >>

Inputs ==
  ShapeInputs \cup
  { NestInput, ArrayInput, MapInput, AllOfInput, RefInput, RefMessageInput, CycleInput,
    ArrayCycleInput, CollideInput }

\* json.Unmarshal into doc.Components.Schemas: the map of the listed schemas
ToMap(in) ==
  [ n \in { in[i][1] : i \in 1..Len(in) } |->
      in[CHOOSE i \in 1..Len(in) : in[i][1] = n /\ \A j \in (i + 1)..Len(in) : in[j][1] # n][2] ]

\* The flags -use-optional, -anyof and -sort
Configs ==
  [ useOptional : BOOLEAN, anyOfMode : { "oneof", "repeat" }, sortFields : BOOLEAN ]

\* ------------------------------------------------------ the specification

\* The lines of the file's header (syntax, package, option), written before
\* the first schema, are left out of out.
Init ==
  /\ input \in Inputs
  /\ doc = ToMap(input)
  /\ cfg \in Configs
  /\ pc = "names"
  /\ names = << >>
  /\ next = 1
  /\ visited = {}
  /\ out = << >>
  /\ stack = << >>

Next ==
  \/ Main_Names
  \/ Main_Call
  \/ Main_Done
  \/ EmitSchema_Visited
  \/ EmitSchema_Enum
  \/ EmitSchema_Message
  \/ EmitSchema_Primitive
  \/ EmitMessage_Fields
  \/ EmitMessage_Map
  \/ EmitMessage_Entries
  \/ EmitMessage_Compose
  \/ EmitMessage_Drain
  \/ EmitMessage_Return
  \/ StackOverflow

Spec == Init /\ [][Next]_vars

\* ------------------------------------------------- reading the output

\* The first lines of the blocks written: a message, an enum or a wrapper
Headers == { i \in 1..Len(out) : out[i].kind \in { "message", "enum", "wrapper" } }

\* The last lines of the blocks written
Ends == { i \in 1..Len(out) : out[i].kind \in { "close", "wrapper" } }

\* Where the block written by the call emitSchema(n, ...) starts and ends
StartOf(n) == CHOOSE i \in Headers : out[i].src = n
Ended(n) == \E i \in Ends : out[i].src = n
EndOf(n) == CHOOSE i \in Ends : out[i].src = n

\* The field lines of the message that the call emitSchema(n, ...) wrote
FieldsOfMessage(n) ==
  LET isField(l) == l.kind = "field" /\ l.src = n
  IN  SelectSeq(out, isField)

\* The lines of that message written for its properties
PropsOfMessage(n) ==
  LET isProp(l) == l.kind = "field" /\ l.src = n /\ l.group = "prop"
  IN  SelectSeq(out, isProp)

\* Whether s begins with prefix
HasPrefix(s, prefix) ==
  Len(s) >= Len(prefix) /\ SubSeq(s, 1, Len(prefix)) = prefix

\* ------------------------------------------------------------------ C1

\* C1: in every message written, the numbers of its fields (properties, the
\* entries field, oneOf branches, anyOf branches), in the order of the output,
\* are 1, 2, ..., k.
C1_FieldNumbersSequential ==
  \A h \in Headers :
    out[h].kind = "message" =>
      \A j \in 1..Len(FieldsOfMessage(out[h].src)) :
        FieldsOfMessage(out[h].src)[j].num = j

\* ------------------------------------------------------------------ C2

\* Every line written belongs to a call whose name is in the visited set,
\* and no two blocks were written for one name.
EmittedOnce ==
  /\ \A i \in 1..Len(out) : out[i].src \in visited
  /\ \A i, j \in Headers : out[i].src = out[j].src => i = j

\* C2: a call emitSchema(name, node) with name in the visited set writes
\* nothing and leaves the visited set unchanged; a call with an unvisited name
\* adds exactly that name to the visited set, and only then may lines of its
\* block be written; so each name is emitted at most once.
C2_EmitAtMostOnce ==
  [][ /\ (Running /\ Top.fn = "emitSchema") =>
           IF Top.name \in visited
           THEN out' = out /\ visited' = visited
           ELSE /\ visited' = visited \cup { Top.name }
                /\ \A i \in (Len(out) + 1)..Len(out') : out'[i].src = Top.name
      /\ ~(Running /\ Top.fn = "emitSchema") => (visited' = visited \/ pc = "names")
      /\ EmittedOnce' ]_vars

\* A run is over in which a schema of the registry was not emitted by main's
\* call, its name being visited already: the block of that name was written
\* for a nested schema.
C2_Witness ==
  /\ pc = "done"
  /\ \E h \in Headers : out[h].src \in DOMAIN doc /\ out[h].how = "queue"

\* ------------------------------------------------------------------ C3

\* C3: every run over a finite registry reaches its completed state: the
\* calls of emitSchema, emitMessage and fieldType are finitely many, so no run
\* ends in the overflow of the stack, the one way a run stops short of done.
C3_RunCompletes == pc # "crashed"

\* ------------------------------------------------------------------ C6

\* C6: the block of a map's value type, emitted eagerly, is complete before
\* the block of the enclosing message begins; every other nested type of a
\* message starts after the message's block has ended.
C6_MapValueBeforeMessage ==
  \A h \in Headers :
    /\ out[h].how = "eager" =>
         /\ h < StartOf(out[h].via)
         /\ Ended(out[h].src) => (EndOf(out[h].src) < StartOf(out[h].via))
    /\ out[h].how = "queue" => (Ended(out[h].via) /\ EndOf(out[h].via) < h)

\* ------------------------------------------------------------------ C7

\* Whether the element of an array needs a type of its own: an enumeration,
\* an object with properties, or a composition
ElementIsSynthesized(e) ==
  \/ Len(e.Enum) > 0
  \/ e.Type = "object" /\ KeysOf(e.Properties) # {}
  \/ e.Type = "" /\ (e.OneOf # Nil \/ e.AllOf # Nil \/ e.AnyOf # Nil)

\* C7: the field of a property that is an array whose element is synthesized
\* has the type "repeated T", T being the identifier of the block emitted for
\* the element after the message.
C7_RepeatedKept ==
  \A i \in 1..Len(out) :
    ( /\ out[i].kind = "field"
      /\ out[i].group = "prop"
      /\ resolveRef(Some(out[i].node)).Type = "array"
      /\ resolveRef(Some(out[i].node)).Items # Nil
      /\ ElementIsSynthesized(resolveRef(resolveRef(Some(out[i].node)).Items)) )
    => /\ HasPrefix(out[i].type, sRepeated)
       /\ (pc = "done" =>
             \E h \in Headers :
               /\ out[h].via = out[i].src
               /\ out[i].type = sRepeated \o out[h].ident)

\* ----------------------------------------------------------------- C10

\* C10: no two blocks of the output declare the same type identifier.
C10_UniqueIdentifiers ==
  \A i, j \in Headers : out[i].ident = out[j].ident => i = j

\* ------------------------------------------------------------------ C4

\* The names of the schemas in the order of the document
DeclaredNames == [ i \in 1..Len(input) |-> input[i][1] ]

\* The names of the schemas emitted by main's calls, in the order of the output
MainNames ==
  LET isMain(l) == l.kind \in { "message", "enum", "wrapper" } /\ l.how = "main"
      lines == SelectSeq(out, isMain)
  IN  [ i \in 1..Len(lines) |-> lines[i].src ]

\* The names of the properties of message n, in the order of the output
PropNames(n) == [ i \in 1..Len(PropsOfMessage(n)) |-> PropsOfMessage(n)[i].prop ]

\* Strictly increasing in the order of the bytes: alphabetical
Alphabetical(seq) == \A i \in 1..(Len(seq) - 1) : StrLess(seq[i], seq[i + 1])

\* In the order of another sequence
InOrderOf(seq, order) ==
  \A i, j \in 1..Len(seq) :
    i < j => \E a, b \in 1..Len(order) : a < b /\ order[a] = seq[i] /\ order[b] = seq[j]

\* The output is in alphabetical order: the schemas main emits, and the
\* properties of every message
SortedOutput ==
  /\ Alphabetical(MainNames)
  /\ \A h \in Headers : out[h].kind = "message" => Alphabetical(PropNames(out[h].src))

\* C4 as claimed: the order of the output is fixed by the registry and the
\* configuration, alphabetical with the sort option and the order of the
\* document without it (of the properties' input order the parsed map keeps
\* nothing; the claim is stated for the names of the schemas).
C4_OrderFixedByInput ==
  /\ cfg.sortFields => SortedOutput
  /\ ~cfg.sortFields => InOrderOf(MainNames, DeclaredNames)

\* C4 as amended: with the sort option the output is the same whatever order
\* the ranges over the maps yield, the schemas and the properties of each
\* message being in alphabetical order.
C4_SortedIsDeterministic ==
  [][ cfg.sortFields =>
        /\ pc = "names" => \A o \in Orders(DOMAIN doc) : names' = namesOf(o)
        /\ (Running /\ Top.fn = "emitMessage" /\ Top.phase = "fields" /\ pc' = "loop") =>
             \A o \in Orders(DOMAIN mergedProperties(Top.s)) :
               SubSeq(out', Len(out) + 2, Len(out')) =
                 fieldsOf(Top, normalizeMessage(Top.name), mergedProperties(Top.s), o).lines
        /\ SortedOutput' ]_vars

\* A sorted run is over: the document lists the schemas in another order than
\* the alphabetical one, and a message has two properties.
C4_Witness ==
  /\ pc = "done"
  /\ cfg.sortFields
  /\ Len(MainNames) >= 2
  /\ MainNames # DeclaredNames
  /\ \E h \in Headers : Len(PropNames(out[h].src)) >= 2

\* ------------------------------------------------------------------ C5

\* The first place of the name n in the queue q
QueueIndex(q, n) ==
  CHOOSE j \in 1..Len(q) : q[j].name = n /\ \A k \in 1..(j - 1) : q[k].name # n

\* Whether the block starting at h was emitted for a schema nested, at any
\* depth, in the block of the name n
RECURSIVE DescendsFrom(_, _)
DescendsFrom(h, n) ==
  /\ out[h].how # "main"
  /\ \/ out[h].via = n
     \/ DescendsFrom(StartOf(out[h].via), n)

\* The type a field refers to, without the repeated of the anyOf field
ReferredType(l) ==
  IF l.group = "repeat" THEN SubSeq(l.type, Len(sRepeated) + 1, Len(l.type)) ELSE l.type

\* The types the fields of message f refer to that are queued by f, in the
\* order of the fields
RequestedBy(f) ==
  LET queued(l) ==
        /\ l.kind = "field"
        /\ l.src = f.name
        /\ l.group # "map"
        /\ \E j \in 1..Len(f.toEmit) : f.toEmit[j].name = ReferredType(l)
      lines == SelectSeq(out, queued)
  IN  [ i \in 1..Len(lines) |-> ReferredType(lines[i]) ]

\* C5: a nested type queued by a message M for a property, a oneOf branch or
\* an anyOf branch is emitted after M's body is closed; the queue holds the
\* nested types in the order of the fields that requested them and they are
\* emitted in that order; and the nested types of a nested type are emitted
\* completely before M's next queued entry.
C5_DeferredFifo ==
  /\ \A h \in Headers :
       out[h].how = "queue" => (Ended(out[h].via) /\ EndOf(out[h].via) < h)
  /\ \A k \in 1..Len(stack) :
       stack[k].fn = "emitMessage" =>
         /\ stack[k].phase # "drain" =>
              \A h \in Headers : ~(out[h].how = "queue" /\ out[h].via = stack[k].name)
         /\ stack[k].phase = "drain" =>
              [ j \in 1..Len(stack[k].toEmit) |-> stack[k].toEmit[j].name ]
                = RequestedBy(stack[k])
         /\ \A h \in Headers :
              (out[h].how = "queue" /\ out[h].via = stack[k].name) =>
                \E j \in 1..(stack[k].drain - 1) : stack[k].toEmit[j].name = out[h].src
         /\ \A h1, h2 \in Headers :
              ( /\ out[h1].how = "queue" /\ out[h1].via = stack[k].name
                /\ out[h2].how = "queue" /\ out[h2].via = stack[k].name
                /\ h1 < h2 )
              => QueueIndex(stack[k].toEmit, out[h1].src)
                   < QueueIndex(stack[k].toEmit, out[h2].src)
  /\ \A h1, h2 \in Headers :
       ( /\ out[h1].how = "queue" /\ out[h2].how = "queue"
         /\ out[h1].via = out[h2].via
         /\ h1 < h2 )
       => /\ Ended(out[h1].src) /\ EndOf(out[h1].src) < h2
          /\ \A d \in Headers :
               DescendsFrom(d, out[h1].src) =>
                 (h1 < d /\ Ended(out[d].src) /\ EndOf(out[d].src) < h2)

\* A run is over in which a message queued two nested types and the first of
\* them had a nested type of its own.
C5_Witness ==
  /\ pc = "done"
  /\ \E h1, h2, d \in Headers :
       /\ out[h1].how = "queue" /\ out[h2].how = "queue"
       /\ out[h1].via = out[h2].via
       /\ h1 < h2
       /\ out[d].how = "queue" /\ out[d].via = out[h1].src

\* ------------------------------------------------------------------ C8

\* The nodes of a schema: the schema and the nodes of its parts
RECURSIVE NodesOf(_)
NodesOf(s) ==
  { s } \cup UNION { NodesOf(c) :
    c \in { s.Properties[1][k] : k \in KeysOf(s.Properties) }
          \cup { s.Items[i] : i \in 1..Len(s.Items) }
          \cup { s.AddlProps[i] : i \in 1..Len(s.AddlProps) }
          \cup { SliceOf(s.OneOf)[i] : i \in 1..Len(SliceOf(s.OneOf)) }
          \cup { SliceOf(s.AllOf)[i] : i \in 1..Len(SliceOf(s.AllOf)) }
          \cup { SliceOf(s.AnyOf)[i] : i \in 1..Len(SliceOf(s.AnyOf)) } }

DocNodes == UNION { NodesOf(doc[n]) : n \in DOMAIN doc }

\* Names to refer to: those of the registry and two that no registry has
RefNames == DOMAIN doc \cup { << "Z" >>, << "Q", "x" >> }

\* C8: resolveRef returns a node that is no reference unchanged; for a
\* reference to a name of the registry it returns the registry's node, be it
\* a reference itself; for a reference to a name the registry lacks it returns
\* the reference, and fieldType maps that reference to string with nothing
\* nested.  So do the calls the run makes: a message is emitted from the
\* schema its reference names, and the field of a dangling reference is a
\* string.
C8_SingleHop ==
  /\ \A s \in DocNodes : s.Ref = << >> => resolveRef(Some(s)) = s
  /\ \A n \in RefNames :
       IF n \in DOMAIN doc
       THEN resolveRef(Some(RefTo(n))) = doc[n]
       ELSE /\ resolveRef(Some(RefTo(n))) = RefTo(n)
            /\ fieldType(<< "f" >>, Some(RefTo(n)), StackLimit) = FieldType(sString, Nil)
  /\ \A k \in 1..Len(stack) :
       stack[k].fn = "emitMessage" =>
         \A n \in DOMAIN doc : stack[k].schema[1] = RefTo(n) => stack[k].s = doc[n]
  /\ \A i \in 1..Len(out) :
       out[i].kind = "field" =>
         \A n \in RefNames :
           (out[i].node = RefTo(n) /\ (n \notin DOMAIN doc \/ doc[n].Ref # << >>))
             => out[i].type = (IF out[i].group = "repeat" THEN sRepeated ELSE << >>)
                                \o sString

\* A run is over in which a field was mapped from a reference to a reference
\* that the registry resolves, and another from a dangling reference.
C8_Witness ==
  /\ pc = "done"
  /\ \E i \in 1..Len(out), n, m \in DOMAIN doc :
       /\ out[i].kind = "field"
       /\ out[i].node = RefTo(n)
       /\ doc[n] = RefTo(m)
       /\ doc[m].Ref = << >>
  /\ \E i \in 1..Len(out), n \in RefNames :
       out[i].kind = "field" /\ out[i].node = RefTo(n) /\ n \notin DOMAIN doc

\* ------------------------------------------------------------------ C9

\* The allOf branches of s, each resolved once
BranchesOf(s) ==
  [ i \in 1..Len(SliceOf(s.AllOf)) |-> resolveRef(Some(SliceOf(s.AllOf)[i])) ]

\* The last branch that declares the property k
LastDeclaring(branches, k) ==
  CHOOSE b \in 1..Len(branches) :
    /\ k \in KeysOf(branches[b].Properties)
    /\ \A c \in (b + 1)..Len(branches) : k \notin KeysOf(branches[c].Properties)

\* C9: the properties of an emitted message are those of the node and of its
\* allOf branches, each once; the definition its field is mapped from is the
\* node's own if it has one, else that of the last branch declaring the
\* property; and a field mapped from a plain string has the type string.
C9_AllOfMerge ==
  \A h \in Headers :
    out[h].kind = "message" =>
      /\ { PropNames(out[h].src)[i] : i \in 1..Len(PropNames(out[h].src)) }
           = KeysOf(out[h].node.Properties)
             \cup UNION { KeysOf(BranchesOf(out[h].node)[b].Properties) :
                          b \in 1..Len(BranchesOf(out[h].node)) }
      /\ \A i, j \in 1..Len(PropNames(out[h].src)) :
           PropNames(out[h].src)[i] = PropNames(out[h].src)[j] => i = j
      /\ \A i \in 1..Len(PropsOfMessage(out[h].src)) :
           /\ PropsOfMessage(out[h].src)[i].node =
                IF PropNames(out[h].src)[i] \in KeysOf(out[h].node.Properties)
                THEN out[h].node.Properties[1][PropNames(out[h].src)[i]]
                ELSE BranchesOf(out[h].node)
                       [LastDeclaring(BranchesOf(out[h].node), PropNames(out[h].src)[i])]
                       .Properties[1][PropNames(out[h].src)[i]]
           /\ PropsOfMessage(out[h].src)[i].node = tStr
                => PropsOfMessage(out[h].src)[i].type = sString

\* A run is over in which a message has an own property that a branch
\* declares otherwise, and a property that two branches declare differently.
C9_Witness ==
  /\ pc = "done"
  /\ \E h \in Headers :
       /\ out[h].kind = "message"
       /\ \E k \in KeysOf(out[h].node.Properties), b \in 1..Len(BranchesOf(out[h].node)) :
            /\ k \in KeysOf(BranchesOf(out[h].node)[b].Properties)
            /\ BranchesOf(out[h].node)[b].Properties[1][k] # out[h].node.Properties[1][k]
       /\ \E b, c \in 1..Len(BranchesOf(out[h].node)) :
            \E k \in KeysOf(BranchesOf(out[h].node)[b].Properties)
                     \cap KeysOf(BranchesOf(out[h].node)[c].Properties) :
              /\ b < c
              /\ k \notin KeysOf(out[h].node.Properties)
              /\ BranchesOf(out[h].node)[b].Properties[1][k]
                   # BranchesOf(out[h].node)[c].Properties[1][k]

====
